---- MODULE Spec2Model ----
(***************************************************************************)
(* Model of the podcast player application: the Player component's effect  *)
(* pipeline (source selection, buffering, progress persistence), the       *)
(* Reflect mutators it calls, the Podcast page subscribe button and the    *)
(* retrying podcast-index API wrappers.                                    *)
(***************************************************************************)
EXTENDS Integers, Sequences, FiniteSets, TLC

\* ------------------------------------------------------------------ bounds
NumEpisodes == 2
NumFeeds == 2
MaxSetups == 2
MaxMutations == 2
MaxNow == 8000
Duration == 20

MaxPresses == 3
MaxLoaders == 2

\* ------------------------------------------------------- program constants
retries == 3
localUpdateInterval == 100
persistedUpdateInterval == 4000
NearEndWindow == 10
DoneProgress == 100

\* ------------------------------------------------------------- value sets
Episodes == 1..NumEpisodes
FeedIds == 1..NumFeeds
\* `currentEpisode == null`: the subscription has no episode.
NoEpisode == 0
\* A field that is missing from an object reads as undefined.
Undefined == 0
\* An episode record without a currentTime field.
Absent == -1
\* audio.duration of a stream without a known length.
Infinite == -1
\* Playback positions (seconds) the audio element reports.
PlayPositions == {5, 15}
\* Amounts of wall-clock time that pass between two callbacks.
TickSteps == {3900, 4000}

\* The feed an episode belongs to (episode.feedId of the API record).
FeedOf(e) == ((e - 1) % NumFeeds) + 1

\* Key `episode/${feedId}/${id}` of the key-value store.
EpisodeKey(feedId, id) == <<feedId, id>>
EpisodeKeys == (FeedIds \cup {Undefined}) \X Episodes

\* tx.get of a key that was never set.
Missing == [stored |-> FALSE, progress |-> 0, currentTime |-> Absent]

VARIABLES
  \* ---- Player component and its environment
  currentEpisodeId,         \* id of useCurrentEpisode(r), NoEpisode when null
  store,                    \* episode records of the key-value store
  cache,                    \* episode ids held by 'podcast-episode-cache/v1'
  setups,                   \* in-flight setupAudioSource() calls
  audioSrc,                 \* useState audioSrc
  currentTime,              \* useState currentTime (displayed time)
  duration,                 \* useState duration
  isBuffering,              \* useState isBuffering
  isPlaying,                \* $isPlaying store
  audioPos,                 \* audio.currentTime
  audioDuration,            \* audio.duration
  audioPhase,               \* "none" | "set" | "loaded"
  now,                      \* Date.now()
  lastUpdatedLocalTime,     \* closure variable of the audioSrc effect
  lastUpdatedPersistedTime, \* closure variable of the audioSrc effect
  hEpisode,                 \* currentEpisode captured by the audioSrc effect
  mutations,                \* r.mutate.updateProgressForEpisode calls issued
                            \* since the audio source was last set
  srcSetAt,                 \* time at which the audioSrc effect last ran
  reported,                 \* episode and progress the player reported last
  lastBufEvent,             \* last of: source change, waiting, canplaythrough
  \* ---- podcast-index API wrappers
  apiCall,                  \* wrapper being called, "idle" when none
  apiOutcome,               \* "none" | "pending" | "resolved" | "rejected"
  apiAttempts,              \* times the request function ran in this call
  apiLog,                   \* outcome of each attempt of this call
  apiResult,                \* feeds the call resolved with
  \* ---- feeds and the Podcast page
  feeds,                    \* feed records of the key-value store
  shownFeed,                \* feed records the Podcast page last rendered
  presses,                  \* button presses since the feed was stored
  stalePress,               \* a press was made on an outdated rendering
  lastMutator,              \* mutator the button issued last
  loaders                   \* Podcast loaders that found the feed missing and
                            \* await podcastById, per feed

playerVars == <<currentEpisodeId, store, cache, setups, audioSrc, currentTime,
                duration, isBuffering, isPlaying, audioPos, audioDuration,
                audioPhase, now, lastUpdatedLocalTime,
                lastUpdatedPersistedTime, hEpisode, mutations, srcSetAt,
                reported, lastBufEvent>>

apiVars == <<apiCall, apiOutcome, apiAttempts, apiLog, apiResult>>

feedVars == <<feeds, shownFeed, presses, stalePress, lastMutator, loaders>>

vars == <<playerVars, apiVars, feedVars>>

\* ------------------------------------------------------------ Player model

NoSrc == [kind |-> "none", ep |-> NoEpisode]
\* currentEpisode.enclosureUrl
RemoteUrl(e) == [kind |-> "remote", ep |-> e]
\* URL.createObjectURL(blob) of the cached response of episode e
ObjectUrl(e) == [kind |-> "blob", ep |-> e]

IdleSetup == [ep |-> NoEpisode, stage |-> "idle"]
\* Nothing has been reported yet.
NoReport == [id |-> NoEpisode, progress |-> 0]

\* The episode record useCurrentEpisode(r) yields for the current id.
CurrentEpisodeView(id, st) ==
  IF id = NoEpisode
    THEN [id |-> NoEpisode, progress |-> 0, currentTime |-> Absent]
    ELSE [id |-> id,
          progress |-> st[EpisodeKey(FeedOf(id), id)].progress,
          currentTime |-> st[EpisodeKey(FeedOf(id), id)].currentTime]

\* `x ?? 0` on the currentTime field.
OrZero(t) == IF t = Absent THEN 0 ELSE t

\* addEpisodesForFeed: every episode is stored under episode/<feedId>/<id>
\* with progress 0.
AddedEpisodes ==
  [k \in EpisodeKeys |->
     IF k[1] = FeedOf(k[2])
       THEN [stored |-> TRUE, progress |-> 0, currentTime |-> Absent]
       ELSE Missing]

\* The mutator updateProgressForEpisode(tx, {id, feedId, progress}).
updateProgressForEpisode(st, args) ==
  LET key == EpisodeKey(args.feedId, args.id)
      storedEpisode == st[key]
  IN IF storedEpisode.stored
       THEN [st EXCEPT ![key] = [storedEpisode EXCEPT !.progress = args.progress]]
       ELSE st

\* The argument object the Player passes to r.mutate.updateProgressForEpisode:
\* it carries id, progress and (near the end) played, and no feedId.
PlayerMutationArgs(id, progress, played) ==
  [id |-> id, feedId |-> Undefined, progress |-> progress, played |-> played]

\* One r.mutate.updateProgressForEpisode(args) call by handler `by`: the
\* mutator runs against the local store and the call is recorded.
Mutate(args, by) ==
  /\ store' = updateProgressForEpisode(store, args)
  /\ mutations' = Append(mutations, [id |-> args.id, feedId |-> args.feedId,
                                      progress |-> args.progress,
                                      played |-> args.played,
                                      by |-> by, at |-> now])
  /\ reported' = [id |-> args.id, progress |-> args.progress]

\* Source selection that ignores the cached response.
SourceForRemoteOnly(e, response) == RemoteUrl(e)

\* The url setupAudioSource passes to setAudioSrc: the object URL of the
\* cached response when cache.match found one, the remote URL otherwise.
SourceFor(e, response) == IF response THEN ObjectUrl(e) ELSE RemoteUrl(e)

\* React re-renders on setAudioSrc(url) only when the state value differs;
\* URL.createObjectURL returns a fresh URL on every call.
SourceChanged(url) == url.kind = "blob" \/ url # audioSrc

\* An audioSrc effect that leaves the buffering flag alone.
BufferingKept(b) == b

\* setIsBuffering(false) at the start of the audioSrc effect.
BufferingAfterSourceChange(b) == FALSE

\* The effect that restores the displayed time while paused.
ProgressTrackerEffect(playing, view, shown) ==
  IF ~playing /\ view.currentTime # Absent THEN view.currentTime ELSE shown

\* now - lastUpdatedLocalTime >= localUpdateInterval
LocalDue(t, last) == t - last >= localUpdateInterval
\* The persisted throttle using the local interval.
PersistDueLocalInterval(t, last) == t - last >= localUpdateInterval

\* now - lastUpdatedPersistedTime >= persistedUpdateInterval
PersistDue(t, last) == t - last >= persistedUpdateInterval
\* audio.duration - audio.currentTime <= 10 (false for NaN and Infinity)
NearEnd(dur, pos) == dur # Infinite /\ dur - pos <= NearEndWindow

\* setAudioSrc(url) and the commit that follows: the audioSrc effect is
\* cleaned up and re-run with the currentEpisode of this render.
SetAudioSrc(url) ==
  IF SourceChanged(url)
    THEN /\ audioSrc' = url
         /\ hEpisode' = CurrentEpisodeView(currentEpisodeId, store)
         /\ audioPos' = OrZero(CurrentEpisodeView(currentEpisodeId, store).currentTime)
         /\ isBuffering' = BufferingAfterSourceChange(isBuffering)
         /\ lastUpdatedLocalTime' = now
         /\ lastUpdatedPersistedTime' = now
         /\ audioPhase' = "set"
         /\ audioDuration' = Infinite
         /\ mutations' = <<>>
         /\ srcSetAt' = now
         /\ lastBufEvent' = "source"
    ELSE UNCHANGED <<audioSrc, hEpisode, audioPos, isBuffering,
                     lastUpdatedLocalTime, lastUpdatedPersistedTime,
                     audioPhase, audioDuration, mutations, srcSetAt,
                     lastBufEvent>>

FreeSlots == {s \in 1..MaxSetups : setups[s].stage = "idle"}
LowestFree == CHOOSE s \in FreeSlots : \A t \in FreeSlots : s <= t

\* The subscription delivers a new current episode: the setup effect runs
\* (its dependencies changed) and starts setupAudioSource().
SetCurrentEpisode(e) ==
  /\ e # currentEpisodeId
  /\ e # NoEpisode => FreeSlots # {}
  /\ currentEpisodeId' = e
  /\ setups' = IF e = NoEpisode
                 THEN setups
                 ELSE [setups EXCEPT ![LowestFree] = [ep |-> e, stage |-> "open"]]
  /\ currentTime' =
       IF CurrentEpisodeView(e, store).currentTime
            # CurrentEpisodeView(currentEpisodeId, store).currentTime
         THEN ProgressTrackerEffect(isPlaying, CurrentEpisodeView(e, store), currentTime)
         ELSE currentTime
  /\ UNCHANGED <<store, cache, audioSrc, duration, isBuffering, isPlaying,
                 audioPos, audioDuration, audioPhase, now,
                 lastUpdatedLocalTime, lastUpdatedPersistedTime, hEpisode,
                 mutations, srcSetAt, reported, lastBufEvent>>
  /\ UNCHANGED <<apiVars, feedVars>>

\* `await caches.open(...)` resolves: the request is built and matched.
CacheOpened(s) ==
  /\ setups[s].stage = "open"
  /\ setups' = [setups EXCEPT ![s].stage = "match"]
  /\ UNCHANGED <<currentEpisodeId, store, cache, audioSrc, currentTime,
                 duration, isBuffering, isPlaying, audioPos, audioDuration,
                 audioPhase, now, lastUpdatedLocalTime,
                 lastUpdatedPersistedTime, hEpisode, mutations, srcSetAt,
                 reported, lastBufEvent>>
  /\ UNCHANGED <<apiVars, feedVars>>

\* `await cache.match(request)` resolves: with a response the blob is read,
\* without one the remote URL becomes the source.
CacheMatched(s) ==
  /\ setups[s].stage = "match"
  /\ IF setups[s].ep \in cache
       THEN /\ setups' = [setups EXCEPT ![s].stage = "blob"]
            /\ UNCHANGED <<audioSrc, hEpisode, audioPos, isBuffering,
                           lastUpdatedLocalTime, lastUpdatedPersistedTime,
                           audioPhase, audioDuration, mutations, srcSetAt,
                           lastBufEvent>>
       ELSE /\ setups' = [setups EXCEPT ![s] = IdleSetup]
            /\ SetAudioSrc(SourceFor(setups[s].ep, FALSE))
  /\ UNCHANGED <<currentEpisodeId, store, cache, currentTime, duration,
                 isPlaying, now, reported>>
  /\ UNCHANGED <<apiVars, feedVars>>

\* `await response.blob()` resolves: the object URL becomes the source.
BlobRead(s) ==
  /\ setups[s].stage = "blob"
  /\ setups' = [setups EXCEPT ![s] = IdleSetup]
  /\ SetAudioSrc(SourceFor(setups[s].ep, TRUE))
  /\ UNCHANGED <<currentEpisodeId, store, cache, currentTime, duration,
                 isPlaying, now, reported>>
  /\ UNCHANGED <<apiVars, feedVars>>

Listening == audioSrc # NoSrc

\* handleWaiting
Waiting ==
  /\ Listening
  /\ isBuffering' = TRUE
  /\ lastBufEvent' = "waiting"
  /\ UNCHANGED <<currentEpisodeId, store, cache, setups, audioSrc,
                 currentTime, duration, isPlaying, audioPos, audioDuration,
                 audioPhase, now, lastUpdatedLocalTime,
                 lastUpdatedPersistedTime, hEpisode, mutations, srcSetAt,
                 reported>>
  /\ UNCHANGED <<apiVars, feedVars>>

\* handleCanPlayThrough
CanPlayThrough ==
  /\ Listening
  /\ isBuffering' = FALSE
  /\ lastBufEvent' = "canplaythrough"
  /\ UNCHANGED <<currentEpisodeId, store, cache, setups, audioSrc,
                 currentTime, duration, isPlaying, audioPos, audioDuration,
                 audioPhase, now, lastUpdatedLocalTime,
                 lastUpdatedPersistedTime, hEpisode, mutations, srcSetAt,
                 reported>>
  /\ UNCHANGED <<apiVars, feedVars>>

\* handleLoadedMetadata; d is the audio.duration the element has learnt.
LoadedMetadata(d) ==
  /\ Listening
  /\ audioPhase = "set"
  /\ audioPhase' = "loaded"
  /\ audioDuration' = d
  /\ currentTime' = OrZero(hEpisode.currentTime)
  /\ duration' = IF d = Infinite THEN 0 ELSE d
  /\ UNCHANGED <<currentEpisodeId, store, cache, setups, audioSrc,
                 isBuffering, isPlaying, audioPos, now,
                 lastUpdatedLocalTime, lastUpdatedPersistedTime, hEpisode,
                 mutations, srcSetAt, reported, lastBufEvent>>
  /\ UNCHANGED <<apiVars, feedVars>>

\* An 'ended' mutation that does not mark the episode as played.
EndedMutationNotPlayed(id) == PlayerMutationArgs(id, DoneProgress, FALSE)

\* The mutation handleEnded issues for the episode it captured.
EndedMutation(id) == PlayerMutationArgs(id, DoneProgress, TRUE)

\* handleTimeUpdate, fired with the audio element at position p.
TimeUpdate(p) ==
  /\ Listening
  /\ audioPhase = "loaded"
  /\ Len(mutations) < MaxMutations
  /\ audioPos' = p
  /\ IF hEpisode.id = NoEpisode
       THEN UNCHANGED <<currentTime, lastUpdatedLocalTime,
                        lastUpdatedPersistedTime, store, mutations, reported>>
       ELSE /\ IF LocalDue(now, lastUpdatedLocalTime)
                 THEN /\ lastUpdatedLocalTime' = now
                      /\ currentTime' = p
                 ELSE UNCHANGED <<lastUpdatedLocalTime, currentTime>>
            /\ IF NearEnd(audioDuration, p)
                 THEN /\ IF hEpisode.progress # DoneProgress
                           THEN Mutate(PlayerMutationArgs(hEpisode.id, DoneProgress, TRUE),
                                       "timeupdate")
                           ELSE UNCHANGED <<store, mutations, reported>>
                      /\ UNCHANGED lastUpdatedPersistedTime
                 ELSE IF PersistDue(now, lastUpdatedPersistedTime)
                        THEN /\ lastUpdatedPersistedTime' = now
                             /\ Mutate(PlayerMutationArgs(hEpisode.id, p, FALSE),
                                       "timeupdate")
                        ELSE UNCHANGED <<lastUpdatedPersistedTime, store,
                                         mutations, reported>>
  /\ UNCHANGED <<currentEpisodeId, cache, setups, audioSrc, duration,
                 isBuffering, isPlaying, audioDuration, audioPhase, now,
                 hEpisode, srcSetAt, lastBufEvent>>
  /\ UNCHANGED <<apiVars, feedVars>>

\* handleEnded; pause() clears $isPlaying, which re-runs the effect that
\* restores the displayed time while paused.
Ended ==
  /\ Listening
  /\ audioPhase = "loaded"
  /\ Len(mutations) < MaxMutations
  /\ IF hEpisode.id = NoEpisode
       THEN UNCHANGED <<isPlaying, currentTime, store, mutations, reported>>
       ELSE /\ isPlaying' = FALSE
            /\ currentTime' =
                 IF isPlaying
                   THEN ProgressTrackerEffect(FALSE,
                          CurrentEpisodeView(currentEpisodeId, store), 0)
                   ELSE 0
            /\ Mutate(EndedMutation(hEpisode.id), "ended")
  /\ UNCHANGED <<currentEpisodeId, cache, setups, audioSrc, duration,
                 isBuffering, audioPos, audioDuration, audioPhase, now,
                 lastUpdatedLocalTime, lastUpdatedPersistedTime, hEpisode,
                 srcSetAt, lastBufEvent>>
  /\ UNCHANGED <<apiVars, feedVars>>

\* togglePlaying() from the play / pause button.
TogglePlaying ==
  /\ isPlaying' = ~isPlaying
  /\ currentTime' = ProgressTrackerEffect(~isPlaying,
                      CurrentEpisodeView(currentEpisodeId, store), currentTime)
  /\ UNCHANGED <<currentEpisodeId, store, cache, setups, audioSrc, duration,
                 isBuffering, audioPos, audioDuration, audioPhase, now,
                 lastUpdatedLocalTime, lastUpdatedPersistedTime, hEpisode,
                 mutations, srcSetAt, reported, lastBufEvent>>
  /\ UNCHANGED <<apiVars, feedVars>>

\* Wall-clock time passes between two callbacks of a mounted audio element
\* (the handlers compare Date.now() only with times taken by the effect).
Tick(d) ==
  /\ Listening
  /\ now + d <= MaxNow
  /\ now' = now + d
  /\ UNCHANGED <<currentEpisodeId, store, cache, setups, audioSrc,
                 currentTime, duration, isBuffering, isPlaying, audioPos,
                 audioDuration, audioPhase, lastUpdatedLocalTime,
                 lastUpdatedPersistedTime, hEpisode, mutations, srcSetAt,
                 reported, lastBufEvent>>
  /\ UNCHANGED <<apiVars, feedVars>>

\* The Player right after mounting: no source, no audio element, the
\* subscription has not delivered an episode yet.
InitPlayer ==
  /\ currentEpisodeId = NoEpisode
  /\ store = AddedEpisodes
  /\ cache \in SUBSET Episodes
  /\ setups = [s \in 1..MaxSetups |-> IdleSetup]
  /\ audioSrc = NoSrc
  /\ currentTime = 0
  /\ duration = 0
  /\ isBuffering = FALSE
  /\ isPlaying \in BOOLEAN
  /\ audioPos = 0
  /\ audioDuration = Infinite
  /\ audioPhase = "none"
  /\ now = 0
  /\ lastUpdatedLocalTime = 0
  /\ lastUpdatedPersistedTime = 0
  /\ hEpisode = CurrentEpisodeView(NoEpisode, store)
  /\ mutations = <<>>
  /\ srcSetAt = 0
  /\ reported = NoReport
  /\ lastBufEvent = "none"

\* ------------------------------------------------------- API wrapper model

\* response.feeds values the API can answer with.
FeedLists == {1, 2}
NoFeeds == 0
Wrappers == {"searchByTerm", "trending"}

\* One run of the wrapped request function throws when fetch / res.json()
\* throws or when response.status !== "true".
RequestFails(fetchThrows, status) == fetchThrows \/ status # "true"

\* What one run of the request function ends with: the error it throws
\* (of fetch, or made from response.description) or response.feeds.
RequestOutcome(fetchThrows, status, fs) ==
  [failed |-> RequestFails(fetchThrows, status),
   error |-> IF fetchThrows THEN "fetch"
             ELSE IF status # "true" THEN "status" ELSE "none",
   feeds |-> IF RequestFails(fetchThrows, status) THEN NoFeeds ELSE fs]

\* pRetry allowing one retry more than configured.
MaxAttemptsOneMore == retries + 2

\* pRetry with `retries: 3` runs the function once plus at most 3 retries.
MaxAttempts == retries + 1

\* searchByTerm(query) / trending() is called: pRetry starts.
CallApi(w) ==
  /\ apiCall = "idle"
  /\ apiCall' = w
  /\ apiOutcome' = "pending"
  /\ apiAttempts' = 0
  /\ apiLog' = <<>>
  /\ apiResult' = NoFeeds
  /\ UNCHANGED <<playerVars, feedVars>>

\* pRetry runs the request function once; it resolves with its value, retries
\* after a failure while retries are left, and rejects otherwise.
Attempt(fetchThrows, status, fs) ==
  /\ apiOutcome = "pending"
  /\ apiAttempts' = apiAttempts + 1
  /\ apiLog' = Append(apiLog, RequestOutcome(fetchThrows, status, fs))
  /\ IF ~RequestFails(fetchThrows, status)
       THEN apiOutcome' = "resolved" /\ apiResult' = fs
       ELSE IF apiAttempts + 1 >= MaxAttempts
              THEN apiOutcome' = "rejected" /\ apiResult' = NoFeeds
              ELSE apiOutcome' = "pending" /\ apiResult' = NoFeeds
  /\ UNCHANGED apiCall
  /\ UNCHANGED <<playerVars, feedVars>>

\* The caller has received the settled promise.
ApiReturn ==
  /\ apiOutcome \in {"resolved", "rejected"}
  /\ apiCall' = "idle"
  /\ apiOutcome' = "none"
  /\ apiAttempts' = 0
  /\ apiLog' = <<>>
  /\ apiResult' = NoFeeds
  /\ UNCHANGED <<playerVars, feedVars>>

InitApi ==
  /\ apiCall = "idle"
  /\ apiOutcome = "none"
  /\ apiAttempts = 0
  /\ apiLog = <<>>
  /\ apiResult = NoFeeds

\* ------------------------------------------------------------- feeds model

NoFeed == [stored |-> FALSE, fromSearch |-> FALSE, subscribed |-> FALSE]

\* mustGetFeed(tx, id): the stored feed; throws when there is none.
mustGetFeed(fs, id) == fs[id]
\* setFeed(tx, feed) / updateFeed(tx, feed): write the feed record.
setFeed(fs, id, feed) == [fs EXCEPT ![id] = feed]
updateFeed(fs, id, feed) == [fs EXCEPT ![id] = feed]

\* The mutator addFeed(tx, rawFeed, fromSearch).
addFeed(fs, id, fromSearch) ==
  setFeed(fs, id, [stored |-> TRUE, fromSearch |-> fromSearch,
                   subscribed |-> FALSE])

\* The mutator subscribeToFeed(tx, feedId).
subscribeToFeed(fs, id) ==
  updateFeed(fs, id, [mustGetFeed(fs, id) EXCEPT !.subscribed = TRUE])

\* The mutator unsubscribeFromFeed(tx, feedId).
unsubscribeFromFeed(fs, id) ==
  updateFeed(fs, id, [mustGetFeed(fs, id) EXCEPT !.subscribed = FALSE])

\* A button that always subscribes.
ButtonAlwaysSubscribes(subscribed) == "subscribeToFeed"

\* The mutator the Podcast page button issues for the feed it displays.
ButtonMutator(subscribed) ==
  IF subscribed THEN "unsubscribeFromFeed" ELSE "subscribeToFeed"

\* r.mutate.addFeed(newFeed) / addFeeds(...) stores feed f.
AddFeed(f, fromSearch) ==
  /\ feeds' = addFeed(feeds, f, fromSearch)
  /\ presses' = [presses EXCEPT ![f] = 0]
  /\ stalePress' = [stalePress EXCEPT ![f] = FALSE]
  /\ lastMutator' = [lastMutator EXCEPT ![f] = "none"]
  /\ UNCHANGED <<shownFeed, loaders>>
  /\ UNCHANGED <<playerVars, apiVars>>

PendingLoaders == LET Sum[n \in 0..NumFeeds] ==
                        IF n = 0 THEN 0 ELSE loaders[n] + Sum[n - 1]
                  IN Sum[NumFeeds]

\* The Podcast loader of feed f queries getFeed, finds no feed and starts
\* podcastById(feedId).
LoaderFindsMissing(f) ==
  /\ ~feeds[f].stored
  /\ PendingLoaders < MaxLoaders
  /\ loaders' = [loaders EXCEPT ![f] = @ + 1]
  /\ UNCHANGED <<feeds, shownFeed, presses, stalePress, lastMutator>>
  /\ UNCHANGED <<playerVars, apiVars>>

\* podcastById resolves in a loader of feed f: r.mutate.addFeed(newFeed).
LoaderAddsFeed(f) ==
  /\ loaders[f] > 0
  /\ loaders' = [loaders EXCEPT ![f] = @ - 1]
  /\ feeds' = addFeed(feeds, f, FALSE)
  /\ presses' = [presses EXCEPT ![f] = 0]
  /\ stalePress' = [stalePress EXCEPT ![f] = FALSE]
  /\ lastMutator' = [lastMutator EXCEPT ![f] = "none"]
  /\ UNCHANGED shownFeed
  /\ UNCHANGED <<playerVars, apiVars>>

\* useFeedById fires: the Podcast page of feed f re-renders.
RenderPodcast(f) ==
  /\ shownFeed[f] # feeds[f]
  /\ shownFeed' = [shownFeed EXCEPT ![f] = feeds[f]]
  /\ UNCHANGED <<feeds, presses, stalePress, lastMutator, loaders>>
  /\ UNCHANGED <<playerVars, apiVars>>

\* onClick of the subscribe button on the Podcast page of feed f.
PressSubscribe(f) ==
  /\ shownFeed[f].stored
  /\ presses[f] < MaxPresses
  /\ feeds' = IF ButtonMutator(shownFeed[f].subscribed) = "subscribeToFeed"
                THEN subscribeToFeed(feeds, f)
                ELSE unsubscribeFromFeed(feeds, f)
  /\ lastMutator' = [lastMutator EXCEPT
                       ![f] = ButtonMutator(shownFeed[f].subscribed)]
  /\ presses' = [presses EXCEPT ![f] = @ + 1]
  /\ stalePress' = [stalePress EXCEPT
                      ![f] = @ \/ shownFeed[f].subscribed # feeds[f].subscribed]
  /\ UNCHANGED <<shownFeed, loaders>>
  /\ UNCHANGED <<playerVars, apiVars>>

InitFeeds ==
  /\ feeds = [f \in FeedIds |-> NoFeed]
  /\ shownFeed = [f \in FeedIds |-> NoFeed]
  /\ presses = [f \in FeedIds |-> 0]
  /\ stalePress = [f \in FeedIds |-> FALSE]
  /\ lastMutator = [f \in FeedIds |-> "none"]
  /\ loaders = [f \in FeedIds |-> 0]

\* ---------------------------------------------------------- specifications

Init == InitPlayer /\ InitApi /\ InitFeeds

AllIdle == \A s \in 1..MaxSetups : setups[s].stage = "idle"

\* Episode switching and source setup under every interleaving, with the
\* buffering events of the audio element, while playback is paused.
InitSource == Init /\ isPlaying = FALSE

NextSource ==
  \/ \E e \in Episodes \cup {NoEpisode} : SetCurrentEpisode(e)
  \/ \E s \in 1..MaxSetups : CacheOpened(s)
  \/ \E s \in 1..MaxSetups : CacheMatched(s)
  \/ \E s \in 1..MaxSetups : BlobRead(s)
  \/ Waiting
  \/ CanPlayThrough

SpecSource == InitSource /\ [][NextSource]_vars

\* Playback of the episodes over time; another episode is chosen only once
\* the previous source setup has completed.
InitPlayback == Init /\ cache \subseteq {1}

\* The current episode changes to another episode with no source setup
\* pending, or to none at any time.
SwitchEpisode(e) == (e = NoEpisode \/ AllIdle) /\ SetCurrentEpisode(e)

NextPlayback ==
  \/ \E e \in Episodes \cup {NoEpisode} : SwitchEpisode(e)
  \/ \E s \in 1..MaxSetups : CacheOpened(s)
  \/ \E s \in 1..MaxSetups : CacheMatched(s)
  \/ \E s \in 1..MaxSetups : BlobRead(s)
  \/ \E d \in {Duration, Infinite} : LoadedMetadata(d)
  \/ \E p \in PlayPositions : TimeUpdate(p)
  \/ Ended
  \/ TogglePlaying
  \/ \E d \in TickSteps : Tick(d)

SpecPlayback == InitPlayback /\ [][NextPlayback]_vars

\* Calls of the API wrappers.
InitApiCalls == Init /\ cache = {} /\ isPlaying = FALSE

NextApi ==
  \/ \E w \in Wrappers : CallApi(w)
  \/ \E t \in BOOLEAN, st \in {"true", "false"}, fs \in FeedLists :
       Attempt(t, st, fs)
  \/ ApiReturn

SpecApi == InitApiCalls /\ [][NextApi]_vars

\* Feeds being stored and the Podcast page button.
InitFeedPage == Init /\ cache = {} /\ isPlaying = FALSE

NextFeeds ==
  \/ \E f \in FeedIds, b \in BOOLEAN : AddFeed(f, b)
  \/ \E f \in FeedIds : RenderPodcast(f)
  \/ \E f \in FeedIds : PressSubscribe(f)

SpecFeeds == InitFeedPage /\ [][NextFeeds]_vars

\* The same, with Podcast loaders that fetch a missing feed before adding it.
NextLoaders ==
  \/ \E f \in FeedIds, b \in BOOLEAN : AddFeed(f, b)
  \/ \E f \in FeedIds : RenderPodcast(f)
  \/ \E f \in FeedIds : PressSubscribe(f)
  \/ \E f \in FeedIds : LoaderFindsMissing(f)
  \/ \E f \in FeedIds : LoaderAddsFeed(f)

SpecLoaders == InitFeedPage /\ [][NextLoaders]_vars

\* ------------------------------------------------------------------ claims

StoredRecord(e) == store[EpisodeKey(FeedOf(e), e)]

\* C1: whenever the Player has reported a progress value for a stored
\* episode, the stored episode record's progress equals the reported value.
C1_ProgressPersisted ==
  \A e \in Episodes :
    (reported.id = e /\ StoredRecord(e).stored)
      => StoredRecord(e).progress = reported.progress

\* C2: a wrapper call runs the request at most 4 times; it resolves with the
\* feeds of the first successful attempt, which is its last attempt, and it
\* rejects only after 4 failed attempts.
C2_RetryAtMostFourAttempts ==
  /\ apiAttempts <= 4
  /\ Len(apiLog) = apiAttempts
  /\ \A i \in 1..(Len(apiLog) - 1) : apiLog[i].failed
  /\ apiOutcome = "pending" => \A i \in 1..Len(apiLog) : apiLog[i].failed
  /\ apiOutcome = "resolved" =>
       /\ apiAttempts >= 1
       /\ ~apiLog[apiAttempts].failed
       /\ apiResult = apiLog[apiAttempts].feeds
       /\ apiResult \in FeedLists
  /\ apiOutcome = "rejected" =>
       /\ apiAttempts = 4
       /\ \A i \in 1..4 : apiLog[i].failed

\* A call that resolved on its fourth attempt, after three failures.
C2_Witness ==
  apiOutcome = "resolved" /\ apiAttempts = 4 /\ apiResult \in FeedLists

\* Indices of the regular (not near-the-end) progress mutations the
\* timeupdate handler issued since the audio source was set.
RegularPersists ==
  {i \in 1..Len(mutations) :
     mutations[i].by = "timeupdate" /\ ~mutations[i].played}

\* C3: within the lifetime of one audio source, every regular progress
\* mutation of the timeupdate handler is issued at least 4000 ms after the
\* source was set and at least 4000 ms after the previous one.
C3_PeriodicPersistence ==
  \A i \in RegularPersists :
    /\ mutations[i].at - srcSetAt >= 4000
    /\ \A j \in RegularPersists :
         i < j => mutations[j].at - mutations[i].at >= 4000

\* Two regular progress mutations were issued for one audio source.
C3_Witness ==
  \E i, j \in RegularPersists :
    i < j /\ mutations[j].at - mutations[i].at >= 4000

\* C4: a step that completes the source setup of the current episode sets
\* the audio source to the object URL of the cached response when the cache
\* holds the episode and to the remote enclosure URL otherwise; a setup run
\* with no current episode leaves the source unchanged.
C4_SourceSelection ==
  [][/\ \A s \in 1..MaxSetups :
          (/\ setups[s].stage # "idle"
           /\ setups'[s].stage = "idle"
           /\ setups[s].ep = currentEpisodeId)
            => audioSrc' = IF setups[s].ep \in cache
                             THEN [kind |-> "blob", ep |-> setups[s].ep]
                             ELSE [kind |-> "remote", ep |-> setups[s].ep]
     /\ (currentEpisodeId # NoEpisode /\ currentEpisodeId' = NoEpisode)
          => (audioSrc' = audioSrc /\ setups' = setups)]_vars

\* The cached copy of the current episode has become the audio source.
C4_Witness ==
  /\ currentEpisodeId # NoEpisode
  /\ currentEpisodeId \in cache
  /\ AllIdle
  /\ audioSrc = [kind |-> "blob", ep |-> currentEpisodeId]

\* C5: isBuffering is true exactly when the last of the events source
\* change, 'waiting' and 'canplaythrough' was 'waiting'; in particular it is
\* false right after a source change.
C5_BufferingState ==
  /\ isBuffering <=> (lastBufEvent = "waiting")
  /\ lastBufEvent = "source" => ~isBuffering

\* The audio source of the current episode is buffering.
C5_Witness ==
  /\ isBuffering
  /\ lastBufEvent = "waiting"
  /\ audioSrc # NoSrc
  /\ audioSrc.ep = currentEpisodeId

\* C6: for a stored feed, the flag is true after subscribeToFeed and false
\* after unsubscribeFromFeed; the button issues unsubscribeFromFeed exactly
\* when the displayed feed is subscribed; and when every press was made on
\* an up-to-date rendering, the flag equals the parity of the presses.
C6_SubscriptionToggle ==
  /\ [](\A f \in FeedIds :
          feeds[f].stored =>
            /\ lastMutator[f] = "subscribeToFeed" => feeds[f].subscribed
            /\ lastMutator[f] = "unsubscribeFromFeed" => ~feeds[f].subscribed
            /\ ~stalePress[f] => (feeds[f].subscribed <=> presses[f] % 2 = 1))
  /\ [][\A f \in FeedIds :
          presses'[f] = presses[f] + 1 =>
            lastMutator'[f] = IF shownFeed[f].subscribed
                                THEN "unsubscribeFromFeed"
                                ELSE "subscribeToFeed"]_vars

\* A feed was subscribed to and unsubscribed from again by two presses.
C6_Witness ==
  \E f \in FeedIds :
    /\ feeds[f].stored
    /\ presses[f] = 2
    /\ ~stalePress[f]
    /\ lastMutator[f] = "unsubscribeFromFeed"
    /\ ~feeds[f].subscribed

\* C7: during the playback of one audio source the timeupdate handler
\* issues the mutation {progress: 100, played: true} at most once.
C7_OnlyOnceAtTheEnd ==
  Cardinality({i \in 1..Len(mutations) :
                 mutations[i].by = "timeupdate" /\ mutations[i].played}) <= 1

\* The position to resume episode e at is known: the player reported a
\* position for e last, or it has reported nothing at all.
ResumeKnown(e) ==
  \/ reported = NoReport
  \/ reported.id = e /\ reported.progress \in PlayPositions

PersistedPosition(e) == IF reported.id = e THEN reported.progress ELSE 0

\* C8: when a new source is set for an episode whose progress was reported
\* last as position p (or when nothing was reported, p = 0), the audio
\* element's position is p, and the displayed time is p once the metadata
\* has loaded.
C8_ResumeWhereLeftOff ==
  /\ []((/\ audioPhase = "set"
         /\ hEpisode.id # NoEpisode
         /\ hEpisode.id = audioSrc.ep
         /\ ResumeKnown(hEpisode.id))
          => audioPos = PersistedPosition(hEpisode.id))
  /\ [][(/\ audioPhase = "set"
         /\ audioPhase' = "loaded"
         /\ hEpisode.id # NoEpisode
         /\ hEpisode.id = audioSrc.ep
         /\ ResumeKnown(hEpisode.id))
          => currentTime' = PersistedPosition(hEpisode.id)]_vars

\* C9: the 'ended' handler, with an episode, pauses the shared playing
\* state, resets the displayed time to 0 and issues exactly one mutation
\* {progress: 100, played: true} for that episode; without an episode it
\* does none of the three.
C9_EndedHandler ==
  [][Ended =>
       IF hEpisode.id # NoEpisode
         THEN /\ ~isPlaying'
              /\ currentTime' = 0
              /\ Len(mutations') = Len(mutations) + 1
              /\ mutations'[Len(mutations')].id = hEpisode.id
              /\ mutations'[Len(mutations')].progress = 100
              /\ mutations'[Len(mutations')].played
              /\ mutations'[Len(mutations')].by = "ended"
         ELSE UNCHANGED <<isPlaying, currentTime, mutations>>]_vars

\* An episode has ended while playing.
C9_Witness ==
  /\ ~isPlaying
  /\ currentTime = 0
  /\ audioPos # 0
  /\ \E i \in 1..Len(mutations) :
       /\ mutations[i].by = "ended"
       /\ mutations[i].id = hEpisode.id
       /\ mutations[i].progress = 100

\* C10: once all pending source setups have completed, the audio source is
\* the source of the current episode.
C10_SourceOfCurrentEpisode ==
  (AllIdle /\ currentEpisodeId # NoEpisode) => audioSrc.ep = currentEpisodeId

\* C11: the subscribed flag of a stored feed goes from true to false only
\* in a step in which the button issues unsubscribeFromFeed for that feed;
\* in particular no addFeed / addFeeds for a stored feed clears it.
C11_SubscriptionSurvivesReAdding ==
  [][\A f \in FeedIds :
       (feeds[f].stored /\ feeds[f].subscribed /\ ~feeds'[f].subscribed)
         => (/\ presses'[f] = presses[f] + 1
             /\ lastMutator'[f] = "unsubscribeFromFeed")]_vars

====
